---- MODULE Spec2Model ----
(***************************************************************************)
(* Model of src/src/sentinel2_cloud_export.py: the batch job that, for     *)
(* every fire of a feature collection and every year after the fire,       *)
(* selects the least cloudy Sentinel-2 image over the fire's area of       *)
(* interest, retries once with a longer window when it is too cloudy,      *)
(* starts an export task and appends one row to resultados_nubes.csv.      *)
(*                                                                         *)
(* The remote service (Earth Engine) is the environment: the contents of   *)
(* its archives are chosen nondeterministically for each fire-year, and    *)
(* every blocking remote call (getInfo, task.start) either returns or      *)
(* raises.                                                                 *)
(***************************************************************************)
EXTENDS Integers, Sequences, FiniteSets, TLC

(* ------------------------------ bounds -------------------------------- *)

\* number of fires in the feature collection
NumFires == 2
\* largest number of archive images intersecting one AOI in one year
MaxImgs == 2
\* earliest ignition year of a fire of the collection
MinYear == 2021
\* Python's recursion limit (sys.getrecursionlimit()), scaled down
RecursionLimit == 4

(* ------------------------- program constants -------------------------- *)

CLOUD_FILTER == 50
UMBRAL_NUBES == 15
\* stop value of range(anioInicio + 1, 2024)
RangeStop == 2024
\* geom.bounds().buffer(3000)
AoiBuffer == 3000
\* month tested by end.get('month').getInfo() == 6
PrimaryMonth == 6

(* ------------------------------ dates --------------------------------- *)

\* ee.Date.fromYMD(y, m, d)
fromYMD(y, m, d) == <<y, m, d>>

\* a is strictly before b
DateLT(a, b) ==
    \/ a[1] < b[1]
    \/ a[1] = b[1] /\ a[2] < b[2]
    \/ a[1] = b[1] /\ a[2] = b[2] /\ a[3] < b[3]

DateLE(a, b) == a = b \/ DateLT(a, b)

(* ------------------------- the remote archive ------------------------- *)

\* The images the two archives may hold over one AOI in year y.  index is
\* system:index, scene the CLOUDY_PIXEL_PERCENTAGE metadata, s2cloudless
\* whether COPERNICUS/S2_CLOUD_PROBABILITY has the image of the same index,
\* cloud / valid the numbers of cloudy and of valid 10 m pixels in the AOI.
Catalogue(y) ==
    { [index |-> 1, date |-> fromYMD(y, 5, 20), scene |-> 10, s2cloudless |-> TRUE,
       cloud |-> 3,  valid |-> 20],
      [index |-> 2, date |-> fromYMD(y, 5, 28), scene |-> 40, s2cloudless |-> TRUE,
       cloud |-> 4,  valid |-> 20],
      [index |-> 3, date |-> fromYMD(y, 6, 10), scene |-> 50, s2cloudless |-> TRUE,
       cloud |-> 10, valid |-> 20],
      [index |-> 4, date |-> fromYMD(y, 6, 20), scene |-> 20, s2cloudless |-> TRUE,
       cloud |-> 0,  valid |-> 20],
      [index |-> 5, date |-> fromYMD(y, 7, 1),  scene |-> 30, s2cloudless |-> TRUE,
       cloud |-> 8,  valid |-> 20],
      [index |-> 6, date |-> fromYMD(y, 5, 30), scene |-> 60, s2cloudless |-> TRUE,
       cloud |-> 0,  valid |-> 20],
      [index |-> 7, date |-> fromYMD(y, 6, 1),  scene |-> 5,  s2cloudless |-> FALSE,
       cloud |-> 0,  valid |-> 20] }

Archives(y) == { S \in SUBSET Catalogue(y) : Cardinality(S) <= MaxImgs }

\* the images of S in increasing system:index
RECURSIVE ByIndex(_)
ByIndex(S) ==
    IF S = {} THEN <<>>
    ELSE LET m == CHOOSE x \in S : \A z \in S : x.index <= z.index
         IN  <<m>> \o ByIndex(S \ {m})

VARIABLES
    fires,            \* incendios_features: the fire records, fixed for the run
    fi,               \* position of the loop over incendios_features
    pc,               \* the statement the script is at
    incendioID,       \* process_feature: incendioID
    epsg,             \* process_feature: epsg
    anioInicio,       \* process_feature: anioInicio
    years,            \* the range object of the loop over anio
    k,                \* position of the loop over anio
    archive,          \* the remote images over the current AOI and year
    frame,            \* arguments of the running try_export_image call
    depth,            \* number of nested try_export_image calls
    col,              \* try_export_image: col
    img,              \* try_export_image: img
    cloud_percentage, \* try_export_image: cloud_percentage
    result,           \* how the last try_export_image call of line 224 ended
    caught,           \* the except clause that caught an exception of that call
    rows,             \* the data rows written to resultados_nubes.csv
    tasks,            \* the export tasks started on the remote service
    calls             \* the arguments of every try_export_image call so far

vars == <<fires, fi, pc, incendioID, epsg, anioInicio, years, k, archive, frame,
          depth, col, img, cloud_percentage, result, caught, rows, tasks, calls>>

(* --------------------- section 2: the joined collection --------------- *)

\* get_s2_sr_cld_col: the S2_SR images of the AOI within [start_date,
\* end_date) whose scene metadata is at most CLOUD_FILTER, inner-joined with
\* the cloud-probability image of the same index.
get_s2_sr_cld_col(arch, start_date, end_date) ==
    ByIndex({ i \in arch : /\ DateLE(start_date, i.date)
                           /\ DateLT(i.date, end_date)
                           /\ i.scene <= CLOUD_FILTER
                           /\ i.s2cloudless })

(* --------------------- section 4: cloudiness in the AOI --------------- *)

\* ee.Number(a).divide(b): 0 for a division by 0
Divide(a, b) == IF b = 0 THEN 0 ELSE a \div b

\* get_cloud_percentage(image, aoi)
get_cloud_percentage(image) == Divide(image.cloud * 100, image.valid)

(* --------------------- section 5: the best image ---------------------- *)

\* set_cloudiness(img): img.set('CLOUDY_PERCENT_AOI', cloud_pct)
set_cloudiness(i) ==
    [image |-> i, CLOUDY_PERCENT_AOI |-> Divide(i.cloud * 100, i.valid)]

\* insert e into the ascending sequence s, after the elements equal to it
RECURSIVE Insert(_, _)
Insert(e, s) ==
    IF s = <<>> THEN <<e>>
    ELSE IF e.CLOUDY_PERCENT_AOI < Head(s).CLOUDY_PERCENT_AOI THEN <<e>> \o s
    ELSE <<Head(s)>> \o Insert(e, Tail(s))

\* col.sort('CLOUDY_PERCENT_AOI'): ascending and stable
RECURSIVE Sort(_)
Sort(s) ==
    IF s = <<>> THEN <<>>
    ELSE Insert(s[Len(s)], Sort(SubSeq(s, 1, Len(s) - 1)))

\* .first()
First(s) == s[1]

\* line 134 without the sort: the first image of the collection
first_image_unsorted(c) == First(c)

\* get_best_image_by_cloud_cover(col, aoi)
get_best_image_by_cloud_cover(c) ==
    LET col_with_cloud == [j \in 1..Len(c) |-> set_cloudiness(c[j])]
        best_img == First(Sort(col_with_cloud))
    IN  best_img.image

(* --------------------- section 7: process_feature --------------------- *)

\* geom.bounds().buffer(3000)
Aoi(feature) == [bounds |-> feature.geom, buffer |-> AoiBuffer]

\* ee.Number(lon).add(180).divide(6).floor().add(1)
Huso(lon) == ((lon + 180) \div 6) + 1

\* f"{n:02d}"
TwoDigits(n) == IF n < 10 THEN "0" \o ToString(n) ELSE ToString(n)

\* f"EPSG:258{int(huso):02d}"
Epsg(lon) == "EPSG:258" \o TwoDigits(Huso(lon))

\* range(a, b)
Range(a, b) == [j \in 1..(IF b > a THEN b - a ELSE 0) |-> a + j - 1]

\* f"{incendioID}_{anio}"
Nombre(id, anio) == ToString(id) \o "_" \o ToString(anio)

\* start and end of line 218 and line 219
PrimaryStart(anio) == fromYMD(anio, 5, 15)
PrimaryEnd(anio) == fromYMD(anio, 6, 15)

\* the call of line 224
FirstCall(id, feature, anio, e) ==
    [nombre |-> Nombre(id, anio), aoi |-> Aoi(feature),
     start |-> PrimaryStart(anio), end |-> PrimaryEnd(anio), epsg |-> e]

(* --------------------- section 6: try_export_image -------------------- *)

\* end_july of line 171
EndJuly(end) == fromYMD(end[1], 7, 15)

\* line 172 moving the whole window: June 15 to July 15
ShiftedCall(f) == [f EXCEPT !.start = f.end, !.end = EndJuly(f.end)]

\* the call of line 172
RetryCall(f) == [f EXCEPT !.end = EndJuly(f.end)]

\* line 175 with another status text
DiscardedRowOtherStatus(nombre, pct) == <<nombre, ToString(pct), "Too cloudy">>

\* the rows of lines 153, 162, 175 and 192
NoImagesRow(nombre) == <<nombre, "", "No images">>
CloudErrorRow(nombre) == <<nombre, "", "Cloud error">>
DiscardedRow(nombre, pct) == <<nombre, ToString(pct), "Discarded">>
ExportedRow(nombre, pct) == <<nombre, ToString(pct), "Exported">>

\* the task of lines 180 to 189
ExportTask(f) ==
    [description |-> "S2_" \o f.nombre, fileNamePrefix |-> f.nombre,
     region |-> f.aoi, crs |-> f.epsg, window |-> <<f.start, f.end>>]

NoImg == [index |-> 0]

(* ------------------------ the fire collection ------------------------- *)

\* centroid longitude (degrees) of the AOI of the i-th fire
CentroidLon(i) == 7 * i - 10

\* the feature collections of the runs: fire i has "id" i, an ignition year
\* ("initialdat") and a geometry
Collections ==
    { [i \in 1..NumFires |-> [id |-> i, initialdat |-> ys[i], geom |-> CentroidLon(i)]] :
        ys \in [1..NumFires -> MinYear..RangeStop] }

Init ==
    /\ fires \in Collections
    /\ fi = 0
    /\ pc = "for_ftr"
    /\ incendioID = 0
    /\ epsg = ""
    /\ anioInicio = 0
    /\ years = <<>>
    /\ k = 0
    /\ archive = {}
    /\ frame = [nombre |-> "", aoi |-> Aoi([geom |-> 0]), start |-> <<0, 0, 0>>,
                end |-> <<0, 0, 0>>, epsg |-> ""]
    /\ depth = 0
    /\ col = <<>>
    /\ img = NoImg
    /\ cloud_percentage = 0
    /\ result = "none"
    /\ caught = "none"
    /\ rows = <<>>
    /\ tasks = <<>>
    /\ calls = <<>>

(* ------------------- section 8: the loop over the fires --------------- *)

\* line 236: the next fire of incendios_features
StartFeature ==
    /\ pc = "for_ftr"
    /\ fi < Len(fires)
    /\ fi' = fi + 1
    /\ pc' = "id"
    /\ UNCHANGED <<fires, incendioID, epsg, anioInicio, years, k, archive, frame,
                   depth, col, img, cloud_percentage, result, caught, rows, tasks, calls>>

\* line 236 and line 232: the loop is exhausted, the file is closed
Finish ==
    /\ pc = "for_ftr"
    /\ fi = Len(fires)
    /\ pc' = "done"
    /\ UNCHANGED <<fires, fi, incendioID, epsg, anioInicio, years, k, archive, frame,
                   depth, col, img, cloud_percentage, result, caught, rows, tasks, calls>>

\* line 201: incendio.get("id").getInfo(); an exception is caught nowhere
ReadId ==
    /\ pc = "id"
    /\ \E ok \in BOOLEAN :
         IF ok THEN /\ incendioID' = fires[fi].id
                    /\ pc' = "epsg"
               ELSE /\ incendioID' = incendioID
                    /\ pc' = "aborted"
    /\ UNCHANGED <<fires, fi, epsg, anioInicio, years, k, archive, frame,
                   depth, col, img, cloud_percentage, result, caught, rows, tasks, calls>>

\* lines 207 to 209: huso.getInfo(); an exception is caught nowhere
ComputeEpsg ==
    /\ pc = "epsg"
    /\ \E ok \in BOOLEAN :
         IF ok THEN /\ epsg' = Epsg(fires[fi].geom)
                    /\ pc' = "anio"
               ELSE /\ epsg' = epsg
                    /\ pc' = "aborted"
    /\ UNCHANGED <<fires, fi, incendioID, anioInicio, years, k, archive, frame,
                   depth, col, img, cloud_percentage, result, caught, rows, tasks, calls>>

\* lines 213 and 216: fechaInicio.get('year').getInfo(), then the range
ReadYear ==
    /\ pc = "anio"
    /\ \E ok \in BOOLEAN :
         IF ok THEN /\ anioInicio' = fires[fi].initialdat
                    /\ years' = Range(fires[fi].initialdat + 1, RangeStop)
                    /\ k' = 0
                    /\ pc' = "for_anio"
               ELSE /\ UNCHANGED <<anioInicio, years, k>>
                    /\ pc' = "aborted"
    /\ UNCHANGED <<fires, fi, incendioID, epsg, archive, frame,
                   depth, col, img, cloud_percentage, result, caught, rows, tasks, calls>>

\* lines 216 to 224: the next year, and the call of try_export_image
BeginYear ==
    /\ pc = "for_anio"
    /\ k < Len(years)
    /\ k' = k + 1
    /\ frame' = FirstCall(incendioID, fires[fi], years[k + 1], epsg)
    /\ calls' = Append(calls, frame')
    /\ archive' \in Archives(years[k + 1])
    /\ depth' = 1
    /\ result' = "none"
    /\ caught' = "none"
    /\ pc' = "size"
    /\ UNCHANGED <<fires, fi, incendioID, epsg, anioInicio, years,
                   col, img, cloud_percentage, rows, tasks>>

\* line 216: the range is exhausted, process_feature returns
EndFeature ==
    /\ pc = "for_anio"
    /\ k = Len(years)
    /\ pc' = "for_ftr"
    /\ UNCHANGED <<fires, fi, incendioID, epsg, anioInicio, years, k, archive, frame,
                   depth, col, img, cloud_percentage, result, caught, rows, tasks, calls>>

(* --------------------- section 6: try_export_image -------------------- *)

\* every nested call returns r (line 172 returns what the inner call
\* returns) or lets the exception through, to line 224; c is the except
\* clause that caught an exception ("line 160", "line 225") or "none"
Return(r, c) ==
    /\ result' = r
    /\ caught' = c
    /\ pc' = "for_anio"
    /\ depth' = 0
    /\ col' = <<>>
    /\ img' = NoImg
    /\ cloud_percentage' = 0

\* lines 150 to 156: col.size().getInfo(), then the best image
QuerySize ==
    /\ pc = "size"
    /\ \E ok \in BOOLEAN :
         LET c == get_s2_sr_cld_col(archive, frame.start, frame.end) IN
         IF ~ok THEN /\ Return("Exception", "line 225")
                     /\ rows' = rows
         ELSE IF Len(c) = 0
              THEN /\ rows' = Append(rows, NoImagesRow(frame.nombre))
                   /\ Return("False", "none")
              ELSE /\ col' = c
                   /\ img' = get_best_image_by_cloud_cover(c)
                   /\ pc' = "cloud"
                   /\ UNCHANGED <<rows, depth, cloud_percentage, result, caught>>
    /\ UNCHANGED <<fires, fi, incendioID, epsg, anioInicio, years, k, archive, frame,
                   tasks, calls>>

\* lines 158 to 163: get_cloud_percentage(img, aoi).getInfo()
CloudPercentage ==
    /\ pc = "cloud"
    /\ \E ok \in BOOLEAN :
         IF ok THEN /\ cloud_percentage' = get_cloud_percentage(img)
                    /\ pc' = "compare"
                    /\ UNCHANGED <<rows, depth, col, img, result, caught>>
               ELSE /\ rows' = Append(rows, CloudErrorRow(frame.nombre))
                    /\ Return("False", "line 160")
    /\ UNCHANGED <<fires, fi, incendioID, epsg, anioInicio, years, k, archive, frame,
                   tasks, calls>>

\* line 168 with >= for >: a percentage equal to the tolerance is rejected
TooCloudyInclusive(pct) == pct >= UMBRAL_NUBES

\* line 168 comparing with the scene filter instead of the tolerance
TooCloudyForScene(pct) == pct > CLOUD_FILTER

\* line 168
TooCloudy(pct) == pct > UMBRAL_NUBES

\* line 169 with >= for ==: the July window is retried as well
IsSummerMonth(end) == end[2] >= PrimaryMonth

\* line 169
IsPrimaryMonth(end) == end[2] = PrimaryMonth

\* lines 168 to 176: end.get('month').getInfo(), then retry or discard
QueryMonth ==
    /\ pc = "compare"
    /\ TooCloudy(cloud_percentage)
    /\ \E ok \in BOOLEAN :
         IF ~ok THEN /\ Return("Exception", "line 225")
                     /\ rows' = rows
         ELSE IF IsPrimaryMonth(frame.end)
              THEN /\ pc' = "retry"
                   /\ UNCHANGED <<rows, depth, col, img, cloud_percentage, result, caught>>
              ELSE /\ rows' = Append(rows, DiscardedRow(frame.nombre, cloud_percentage))
                   /\ Return("False", "none")
    /\ UNCHANGED <<fires, fi, incendioID, epsg, anioInicio, years, k, archive, frame,
                   tasks, calls>>

\* lines 171 and 172: end.get('year').getInfo(), then the nested call
Retry ==
    /\ pc = "retry"
    /\ \E ok \in BOOLEAN :
         IF ok /\ depth < RecursionLimit
         THEN /\ frame' = RetryCall(frame)
              /\ calls' = Append(calls, frame')
              /\ depth' = depth + 1
              /\ pc' = "size"
              /\ col' = <<>>
              /\ img' = NoImg
              /\ cloud_percentage' = 0
              /\ UNCHANGED <<result, caught>>
         ELSE /\ Return("Exception", "line 225")
              /\ UNCHANGED <<frame, calls>>
    /\ UNCHANGED <<fires, fi, incendioID, epsg, anioInicio, years, k, archive,
                   rows, tasks>>

\* lines 179 to 193: the composite, task.start() and the row
Export ==
    /\ pc = "compare"
    /\ ~TooCloudy(cloud_percentage)
    /\ \E ok \in BOOLEAN :
         IF ok THEN /\ tasks' = Append(tasks, ExportTask(frame))
                    /\ rows' = Append(rows, ExportedRow(frame.nombre, cloud_percentage))
                    /\ Return("True", "none")
               ELSE /\ UNCHANGED <<tasks, rows>>
                    /\ Return("Exception", "line 225")
    /\ UNCHANGED <<fires, fi, incendioID, epsg, anioInicio, years, k, archive, frame,
                   calls>>

Next ==
    \/ StartFeature
    \/ Finish
    \/ ReadId
    \/ ComputeEpsg
    \/ ReadYear
    \/ BeginYear
    \/ EndFeature
    \/ QuerySize
    \/ CloudPercentage
    \/ QueryMonth
    \/ Retry
    \/ Export

Spec == Init /\ [][Next]_vars
\* the sequential script keeps executing: every blocking remote call returns
\* or raises
FairSpec == Spec /\ WF_vars(Next)

(* ------------------------------ properties ---------------------------- *)

\* a try_export_image call is running
InCall == pc \in {"size", "cloud", "compare", "retry"}

\* the script has ended: the loop is exhausted, or an exception left it
Terminated == pc \in {"done", "aborted"}

\* the names of the fire-year attempts that have ended
EndedAttempts ==
    { calls[j].nombre : j \in { i \in 1..Len(calls) :
                                  ~(InCall /\ calls[i].nombre = frame.nombre) } }

\* the last attempt has ended and the script is between two attempts
AttemptEnded == pc = "for_anio" /\ k > 0

RowsNamed(n) == { i \in 1..Len(rows) : rows[i][1] = n }

TasksNamed(n) == { i \in 1..Len(tasks) : tasks[i].fileNamePrefix = n }

LastRow == rows[Len(rows)]

\* the AOI cloud percentages of the images of a collection
Percentages(c) == { (c[j].cloud * 100) \div c[j].valid : j \in 1..Len(c) }

MinOf(S) == CHOOSE m \in S : \A x \in S : m <= x

\* the collection of the window the attempt evaluated last
FinalCol == get_s2_sr_cld_col(archive, frame.start, frame.end)

\* C1: once the attempt of a fire-year has ended, by any path, the output
\* file holds exactly one row named after that fire-year.
C1_OneRowPerAttempt ==
    \A n \in EndedAttempts : Cardinality(RowsNamed(n)) = 1

\* C2: when an exception was raised during a fire-year attempt, whichever
\* except clause caught it, the row written last is a row of that fire-year
\* with the error status.
C2_ErrorsRecorded ==
    (AttemptEnded /\ caught # "none") =>
        /\ Len(rows) > 0
        /\ LastRow[1] = frame.nombre
        /\ LastRow[3] = "Cloud error"

\* C3: when the run has ended, every year of range(ignition year + 1,
\* RangeStop) of every fire of the collection has been attempted.
C3_AllFireYearsAttempted ==
    Terminated =>
        \A i \in 1..Len(fires) :
            \A y \in (fires[i].initialdat + 1)..(RangeStop - 1) :
                \E j \in 1..Len(calls) : calls[j].nombre = Nombre(fires[i].id, y)

C5_SingleRetryTerminates ==
    /\ [](depth <= 2)
    /\ [](\A n \in { calls[j].nombre : j \in 1..Len(calls) } :
             Cardinality({ j \in 1..Len(calls) : calls[j].nombre = n }) <= 2)
    /\ [](AttemptEnded =>
             \/ result = "True" /\ LastRow = <<frame.nombre, LastRow[2], "Exported">>
             \/ /\ result = "False"
                /\ LastRow[1] = frame.nombre
                /\ LastRow[3] \in {"Discarded", "No images", "Cloud error"}
             \/ result = "Exception")
    /\ (InCall ~> ~InCall)

\* C5 witness: the second call of a fire-year is running.
C5_Witness == depth = 2 /\ pc = "compare" /\ cloud_percentage > UMBRAL_NUBES

\* the window evaluated last has an acceptable candidate
Acceptable ==
    /\ Len(FinalCol) > 0
    /\ MinOf(Percentages(FinalCol)) <= UMBRAL_NUBES

\* what C6 says of every fire-year beside the trigger: at most one export
\* task, an "Exported" row only with its task, no task with another row
C6_Rest ==
    /\ \A i \in 1..Len(tasks) :
           Cardinality(TasksNamed(tasks[i].fileNamePrefix)) = 1
    /\ \A i \in 1..Len(rows) :
           /\ rows[i][3] = "Exported" => TasksNamed(rows[i][1]) # {}
           /\ rows[i][3] \in {"No images", "Cloud error", "Discarded"} =>
                  TasksNamed(rows[i][1]) = {}

\* C6 as stated: once the attempt of a fire-year has ended, an export task
\* was started for it if and only if the window evaluated last has an image
\* whose best AOI cloud percentage is at most UMBRAL_NUBES.
C6_ExportIffAcceptable ==
    /\ AttemptEnded => (TasksNamed(frame.nombre) # {} <=> Acceptable)
    /\ C6_Rest

\* C6 amended: once the attempt of a fire-year has ended, an export task was
\* started for it if and only if the window evaluated last has an image
\* whose best AOI cloud percentage is at most UMBRAL_NUBES and no remote
\* call of the attempt raised; the rest as stated.
C6_ExportIffAcceptableNoError ==
    /\ AttemptEnded =>
           (TasksNamed(frame.nombre) # {} <=> (Acceptable /\ caught = "none"))
    /\ C6_Rest

\* C6 witness: the July window of a retried fire-year was exported.
C6_Witness ==
    /\ AttemptEnded
    /\ result = "True"
    /\ frame.end[2] = 7
    /\ TasksNamed(frame.nombre) # {}

\* C7: every row of the output file is a triple whose status is "Exported",
\* "Discarded", "No images" or "Cloud error".
C7_RowStatus ==
    \A i \in 1..Len(rows) :
        /\ Len(rows[i]) = 3
        /\ rows[i][3] \in {"Exported", "Discarded", "No images", "Cloud error"}

\* C7 witness: the file holds a row of each status.
C7_Witness ==
    \A st \in {"Exported", "Discarded", "No images", "Cloud error"} :
        \E i \in 1..Len(rows) : rows[i][3] = st

\* last year of the loop as the comment of line 215 states it
ClaimedLastYear == 2024

\* C8: the years process_feature iterates for a fire of ignition year Y are
\* Y + 1, ..., 2024 in increasing order (none when Y >= 2024), each called
\* with the window May 15 to June 15.
C8_YearsUpTo2024 ==
    (pc = "for_anio") =>
        /\ years = [j \in 1..(IF ClaimedLastYear > anioInicio
                              THEN ClaimedLastYear - anioInicio ELSE 0) |->
                       anioInicio + j]
        /\ \A j \in 1..k :
               \E c \in 1..Len(calls) :
                   /\ calls[c].nombre = Nombre(incendioID, years[j])
                   /\ calls[c].start = <<years[j], 5, 15>>
                   /\ calls[c].end = <<years[j], 6, 15>>

\* C9: the image selected from a non-empty collection has the least AOI
\* cloud percentage of the collection, and the percentage compared with the
\* tolerance and written to the row is that minimum.
C9_BestIsMinimum ==
    /\ (pc \in {"cloud", "compare", "retry"}) =>
           /\ Len(col) > 0
           /\ col = FinalCol
           /\ \E j \in 1..Len(col) : col[j] = img
           /\ (img.cloud * 100) \div img.valid = MinOf(Percentages(col))
    /\ (pc \in {"compare", "retry"}) =>
           cloud_percentage = MinOf(Percentages(col))
    /\ (AttemptEnded /\ result # "Exception" /\ LastRow[3] \in {"Exported", "Discarded"}) =>
           LastRow[2] = ToString(MinOf(Percentages(FinalCol)))

\* C9 witness: the least cloudy image is not the first of the collection
\* and its percentage is the one compared.
C9_Witness ==
    /\ pc = "compare"
    /\ Len(col) = 2
    /\ (col[1].cloud * 100) \div col[1].valid > cloud_percentage
    /\ img = col[2]

\* C10: a retry changes only the end of the window.  The second call of a
\* fire-year has the name, AOI, EPSG code and start date (May 15) of the
\* first, whose window ended on June 15, and ends on July 15 of the same
\* year; an export after a retry is of the window May 15 to July 15.
C10_RetryFrame ==
    /\ (depth = 2) =>
           LET first == calls[Len(calls) - 1] IN
           /\ Len(calls) >= 2
           /\ frame = calls[Len(calls)]
           /\ frame.nombre = first.nombre
           /\ frame.aoi = first.aoi
           /\ frame.epsg = first.epsg
           /\ frame.start = first.start
           /\ first.start = <<first.end[1], 5, 15>>
           /\ first.end = <<first.end[1], 6, 15>>
           /\ frame.end = <<first.end[1], 7, 15>>
           /\ DateLE(frame.start, first.start) /\ DateLE(first.end, frame.end)
    /\ \A i \in 1..Len(tasks) :
           LET w == tasks[i].window IN
           /\ w[1] = <<w[2][1], 5, 15>>
           /\ w[2] \in {<<w[2][1], 6, 15>>, <<w[2][1], 7, 15>>}

\* C10 witness: the window May 15 to July 15 was exported after a retry.
C10_Witness ==
    /\ Len(calls) >= 2
    /\ calls[Len(calls) - 1].nombre = calls[Len(calls)].nombre
    /\ \E i \in 1..Len(tasks) :
           /\ tasks[i].fileNamePrefix = calls[Len(calls)].nombre
           /\ tasks[i].window[2][2] = 7
====
